---- MODULE Spec2Model ----
(***************************************************************************)
(* patchouli: the change-set model (ChangeSet, UndoPoint,                   *)
(* ChangeCollection) and the command loop that drives it (CommandLoop).     *)
(*                                                                          *)
(* A hunk is identified by its position 1..NumHunks in the loaded patch;    *)
(* file_id[h] is the file pair it belongs to.  A ChangeSet is the record    *)
(* [hunks, index]; the ChangeCollection is the three variables sets,        *)
(* current_set_name and undo_stack.                                         *)
(***************************************************************************)
EXTENDS Integers, Sequences, FiniteSets, TLC

\* Number of hunks in the loaded patch.
NumHunks == 3
\* Number of distinct file pairs the hunks may belong to.
NumFiles == 2
\* Cap on the depth of the undo stack (the list is unbounded in the code).
MaxUndo == 2

\* Set names the user may type, in sorted order; "unclassified" is the one
\* created at startup.
NameOrder == <<"bar", "foo", "unclassified">>
Names == {NameOrder[i] : i \in DOMAIN NameOrder}

FileIds == 1..NumFiles

\* Integers the user may pass to go / hunk: below, inside and above the range.
GoArgs == (0 - 1)..(NumHunks + 1)

VARIABLES
  sets,              \* ChangeCollection.sets: name -> [hunks, index]
  current_set_name,  \* ChangeCollection.current_set_name
  undo_stack,        \* ChangeCollection.undo_stack: Seq of UndoPoint
  file_id,           \* Hunk.file_id of every loaded hunk
  prompt,            \* CommandLoop.prompt
  last_move,         \* CommandLoop.last_move
  cmdqueue,          \* CommandLoop.cmdqueue: commands queued ahead of the input
  last,              \* the last call: [op, arg, num, err, out]
  journal            \* history: per UndoPoint on the stack, the hunk its move
                     \* transferred and every set's hunks before that move

vars == <<sets, current_set_name, undo_stack, file_id, prompt, last_move,
          cmdqueue, last, journal>>

Max(a, b) == IF a > b THEN a ELSE b
Min(a, b) == IF a < b THEN a ELSE b

\* s without its element at position i (1-based).
RemoveAt(s, i) == [k \in 1..(Len(s) - 1) |-> IF k < i THEN s[k] ELSE s[k + 1]]

\* s with x placed before the element at 0-based position k (0 <= k <= Len(s)).
InsertBefore(s, k, x) ==
  [j \in 1..(Len(s) + 1) |-> IF j <= k THEN s[j] ELSE IF j = k + 1 THEN x ELSE s[j - 1]]

(***************************************************************************)
(* ChangeSet                                                                *)
(***************************************************************************)

ChangeSet(hunks) == [hunks |-> hunks, index |-> 1]

count(cs) == Len(cs.hunks)

empty(cs) == cs.hunks = <<>>

\* _clip_index with its two tests in the other order.
_clip_index_swapped(cs) ==
  LET a == IF cs.index < 1 THEN [cs EXCEPT !.index = 1] ELSE cs
  IN  IF a.index > count(a) THEN [a EXCEPT !.index = count(a)] ELSE a

\* The two tests run in sequence: the second sees the first one's result.
_clip_index(cs) ==
  LET a == IF cs.index > count(cs) THEN [cs EXCEPT !.index = count(cs)] ELSE cs
  IN  IF a.index < 1 THEN [a EXCEPT !.index = 1] ELSE a

\* Clamps, then raises when the cursor still has no hunk under it.
_not_empty(cs) ==
  LET c == _clip_index(cs)
  IN  [err |-> IF c.index > Len(c.hunks) THEN "This change set is empty" ELSE "",
       cs  |-> c]

\* The property ChangeSet.current_hunk: [err, ret, cs]; ret is 0 on error.
current_hunk(cs) ==
  LET r == _not_empty(cs)
  IN  [err |-> r.err,
       ret |-> IF r.err = "" THEN r.cs.hunks[r.cs.index] ELSE 0,
       cs  |-> r.cs]

go(cs, index) == _clip_index([cs EXCEPT !.index = index])

skip(cs) == IF cs.index = count(cs) THEN go(cs, 1) ELSE go(cs, cs.index + 1)

back(cs) == IF cs.index = 1 THEN go(cs, count(cs)) ELSE go(cs, cs.index - 1)

\* take that returns the hunk under the cursor and leaves it in the list.
take_keep(cs) ==
  LET i == cs.index - 1
  IN  IF ~(0 <= i /\ i < count(cs))
      THEN [err |-> "Change set is empty", ret |-> 0, cs |-> cs]
      ELSE [err |-> "", ret |-> cs.hunks[i + 1], cs |-> cs]

\* take that steps the cursor back onto the list after removing the hunk.
take_clips(cs) ==
  LET i == cs.index - 1
  IN  IF ~(0 <= i /\ i < count(cs))
      THEN [err |-> "Change set is empty", ret |-> 0, cs |-> cs]
      ELSE [err |-> "", ret |-> cs.hunks[i + 1],
            cs  |-> _clip_index([cs EXCEPT !.hunks = RemoveAt(cs.hunks, i + 1)])]

\* [err, ret, cs]: removes the hunk under the cursor; the cursor keeps its value.
take(cs) ==
  LET i == cs.index - 1
  IN  IF ~(0 <= i /\ i < count(cs))
      THEN [err |-> "Change set is empty", ret |-> 0, cs |-> cs]
      ELSE [err |-> "", ret |-> cs.hunks[i + 1],
            cs  |-> [cs EXCEPT !.hunks = RemoveAt(cs.hunks, i + 1)]]

\* pop that removes the first hunk: list.pop(0).
pop_front(cs) ==
  IF cs.hunks = <<>>
  THEN [err |-> "IndexError", ret |-> 0, cs |-> cs]
  ELSE [err |-> "", ret |-> cs.hunks[1],
        cs  |-> [cs EXCEPT !.hunks = SubSeq(cs.hunks, 2, Len(cs.hunks))]]

\* list.pop(): raises IndexError on an empty list.
pop(cs) ==
  IF cs.hunks = <<>>
  THEN [err |-> "IndexError", ret |-> 0, cs |-> cs]
  ELSE [err |-> "", ret |-> cs.hunks[Len(cs.hunks)],
        cs  |-> [cs EXCEPT !.hunks = SubSeq(cs.hunks, 1, Len(cs.hunks) - 1)]]

\* put that leaves the list as it is.
put_drops(cs, hunk) == cs

put(cs, hunk) == [cs EXCEPT !.hunks = Append(cs.hunks, hunk)]

\* insert that passes the 1-based index to list.insert unchanged.
insert_one_off(cs, index, hunk) ==
  LET n == Len(cs.hunks)
      at == IF index >= n THEN n ELSE IF index >= 0 THEN index ELSE Max(0, n + index)
  IN  [cs EXCEPT !.hunks = InsertBefore(cs.hunks, at, hunk)]

\* list.insert(index - 1, hunk): a position past the end appends, a negative
\* one counts from the end and stops at the front.
insert(cs, index, hunk) ==
  LET n == Len(cs.hunks)
      k == index - 1
      at == IF k >= n THEN n ELSE IF k >= 0 THEN k ELSE Max(0, n + k)
  IN  [cs EXCEPT !.hunks = InsertBefore(cs.hunks, at, hunk)]

\* The text "index/count", or "empty".
progress(cs) ==
  IF count(cs) # 0 THEN ToString(cs.index) \o "/" \o ToString(count(cs)) ELSE "empty"

(***************************************************************************)
(* Writing a change set                                                     *)
(***************************************************************************)

get_file_id(key, a) == key[a]

\* sorted(hunks, key=get_file_id): a stable sort, element by element; x goes
\* after every element whose key is not greater than its own.
RECURSIVE sorted(_, _)
sorted(s, key) ==
  IF s = <<>> THEN <<>>
  ELSE LET t == sorted(SubSeq(s, 1, Len(s) - 1), key)
           x == s[Len(s)]
           p == Cardinality({j \in 1..Len(t) : get_file_id(key, t[j]) <= get_file_id(key, x)})
       IN  InsertBefore(t, p, x)

\* itertools.groupby: one group per run of consecutive equal keys.
RECURSIVE groupby(_, _)
groupby(s, key) ==
  IF s = <<>> THEN <<>>
  ELSE LET g == groupby(SubSeq(s, 1, Len(s) - 1), key)
           x == s[Len(s)]
       IN  IF g # <<>> /\ get_file_id(key, g[Len(g)][1]) = get_file_id(key, x)
           THEN [g EXCEPT ![Len(g)] = Append(@, x)]
           ELSE Append(g, <<x>>)

\* Grouping without sorting first.
group_hunks_unsorted(hunks, key) == groupby(hunks, key)

group_hunks_by_file(hunks, key) == groupby(sorted(hunks, key), key)

\* What Hunk.write_file_header and Hunk.write_hunk put on the file object.
write_file_header(hunk) == [kind |-> "header", hunk |-> hunk]
write_hunk(hunk) == [kind |-> "hunk", hunk |-> hunk]

RECURSIVE write_each(_)
write_each(hunks) ==
  IF hunks = <<>> THEN <<>> ELSE <<write_hunk(Head(hunks))>> \o write_each(Tail(hunks))

RECURSIVE write_groups(_)
write_groups(groups) ==
  IF groups = <<>> THEN <<>>
  ELSE <<write_file_header(Head(groups)[1])>> \o write_each(Head(groups))
         \o write_groups(Tail(groups))

\* ChangeSet.write: the sequence of records written to the file object.
write(cs, key) == write_groups(group_hunks_by_file(cs.hunks, key))

(***************************************************************************)
(* UndoPoint and ChangeCollection.  A collection is the record              *)
(* [sets, current_set_name, undo_stack]; every operation yields             *)
(* [err, ret, coll]: the message of the RuntimeError raised ("" when none), *)
(* what was returned or written, and the collection as the call left it.    *)
(***************************************************************************)

\* UndoPoint built with the two set names in each other's place.
UndoPoint_swapped(index, source_set, target_set) ==
  [index |-> index, source_set |-> target_set, target_set |-> source_set]

UndoPoint(index, source_set, target_set) ==
  [index |-> index, source_set |-> source_set, target_set |-> target_set]

ChangeCollection(unclassified) ==
  [sets |-> [n \in {"unclassified"} |-> unclassified],
   current_set_name |-> "unclassified",
   undo_stack |-> <<>>]

\* sorted(self.sets.keys()).
set_names(c) == SelectSeq(NameOrder, LAMBDA n : n \in DOMAIN c.sets)

current_set(c) == c.sets[c.current_set_name]

\* c with its current set replaced by cs.
WithCurrent(c, cs) == [c EXCEPT !.sets[c.current_set_name] = cs]

coll_current_hunk(c) ==
  LET r == current_hunk(current_set(c))
  IN  [err |-> r.err, ret |-> IF r.err = "" THEN <<r.ret>> ELSE <<>>,
       coll |-> WithCurrent(c, r.cs)]

coll_skip(c) == [err |-> "", ret |-> <<>>, coll |-> WithCurrent(c, skip(current_set(c)))]

coll_back(c) == [err |-> "", ret |-> <<>>, coll |-> WithCurrent(c, back(current_set(c)))]

\* self.coll.current_set.go(i), as do_hunk calls it.
coll_go(c, i) == [err |-> "", ret |-> <<>>, coll |-> WithCurrent(c, go(current_set(c), i))]

\* select that also puts the cursor of the selected set on its first hunk.
select_rewinds(c, name) ==
  IF name \notin DOMAIN c.sets
  THEN [err |-> "No such set", ret |-> <<>>, coll |-> c]
  ELSE [err |-> "", ret |-> <<>>,
        coll |-> [c EXCEPT !.current_set_name = name, !.sets[name].index = 1]]

\* select that switches before it looks the name up.
select_unchecked(c, name) ==
  [err |-> IF name \notin DOMAIN c.sets THEN "No such set" ELSE "", ret |-> <<>>,
   coll |-> [c EXCEPT !.current_set_name = name]]

select(c, name) ==
  IF name \notin DOMAIN c.sets
  THEN [err |-> "No such set", ret |-> <<>>, coll |-> c]
  ELSE [err |-> "", ret |-> <<>>, coll |-> [c EXCEPT !.current_set_name = name]]

\* create that stores the new empty set before it looks the name up.
create_replaces(c, name) ==
  [err |-> IF name \in DOMAIN c.sets THEN "Set already exists" ELSE "", ret |-> <<>>,
   coll |-> [c EXCEPT !.sets = [n \in DOMAIN c.sets \cup {name} |->
                                  IF n = name THEN ChangeSet(<<>>) ELSE c.sets[n]]]]

create(c, name) ==
  IF name \in DOMAIN c.sets
  THEN [err |-> "Set already exists", ret |-> <<>>, coll |-> c]
  ELSE [err |-> "", ret |-> <<>>,
        coll |-> [c EXCEPT !.sets = [n \in DOMAIN c.sets \cup {name} |->
                                       IF n = name THEN ChangeSet(<<>>) ELSE c.sets[n]]]]

\* move that records the UndoPoint before it takes the hunk.
move_records_first(c, name) ==
  IF name = c.current_set_name
  THEN [err |-> "Hunk is already in change set", ret |-> <<>>, coll |-> c]
  ELSE IF name \notin DOMAIN c.sets
  THEN [err |-> "No such change set", ret |-> <<>>, coll |-> c]
  ELSE LET c0 == [c EXCEPT !.undo_stack =
                    Append(@, UndoPoint(current_set(c).index, c.current_set_name, name))]
           t  == take(current_set(c0))
       IN  IF t.err # ""
           THEN [err |-> t.err, ret |-> <<>>, coll |-> c0]
           ELSE LET c1 == WithCurrent(c0, t.cs)
                IN  [err |-> "", ret |-> <<>>,
                     coll |-> [c1 EXCEPT !.sets[name] = put(c1.sets[name], t.ret)]]

move(c, name) ==
  IF name = c.current_set_name
  THEN [err |-> "Hunk is already in change set", ret |-> <<>>, coll |-> c]
  ELSE IF name \notin DOMAIN c.sets
  THEN [err |-> "No such change set", ret |-> <<>>, coll |-> c]
  ELSE LET t == take(current_set(c))
       IN  IF t.err # ""
           THEN [err |-> t.err, ret |-> <<>>, coll |-> WithCurrent(c, t.cs)]
           ELSE LET c1 == WithCurrent(c, t.cs)
                    c2 == [c1 EXCEPT !.sets[name] = put(c1.sets[name], t.ret)]
                IN  [err |-> "", ret |-> <<>>,
                     coll |-> [c2 EXCEPT !.undo_stack =
                                 Append(@, UndoPoint(current_set(c2).index,
                                                     c2.current_set_name, name))]]

\* undo that puts the hunk back and leaves the current set name as it is.
undo_keeps_current(c) ==
  IF c.undo_stack = <<>>
  THEN [err |-> "Nothing to undo", ret |-> <<>>, coll |-> c]
  ELSE LET u  == c.undo_stack[Len(c.undo_stack)]
           c1 == [c EXCEPT !.undo_stack = SubSeq(@, 1, Len(@) - 1)]
           p  == pop(c1.sets[u.target_set])
       IN  IF p.err # ""
           THEN [err |-> p.err, ret |-> <<>>, coll |-> c1]
           ELSE LET c2 == [c1 EXCEPT !.sets[u.target_set] = p.cs]
                    c3 == [c2 EXCEPT !.sets[u.source_set] = insert(@, u.index, p.ret)]
                IN  [err |-> "", ret |-> <<u>>,
                     coll |-> WithCurrent(c3, go(current_set(c3), u.index))]

undo(c) ==
  IF c.undo_stack = <<>>
  THEN [err |-> "Nothing to undo", ret |-> <<>>, coll |-> c]
  ELSE LET u  == c.undo_stack[Len(c.undo_stack)]
           c1 == [c EXCEPT !.undo_stack = SubSeq(@, 1, Len(@) - 1)]
           p  == pop(c1.sets[u.target_set])
       IN  IF p.err # ""
           THEN [err |-> p.err, ret |-> <<>>, coll |-> c1]
           ELSE LET c2 == [c1 EXCEPT !.sets[u.target_set] = p.cs]
                    c3 == [c2 EXCEPT !.sets[u.source_set] = insert(@, u.index, p.ret)]
                    c4 == [c3 EXCEPT !.current_set_name = u.source_set]
                IN  [err |-> "", ret |-> <<u>>,
                     coll |-> WithCurrent(c4, go(current_set(c4), u.index))]

\* ret is the content of the file name.patch: <<[file, content]>>.
write_set(c, name, key) ==
  IF name \notin DOMAIN c.sets
  THEN [err |-> "No such set", ret |-> <<>>, coll |-> c]
  ELSE [err |-> "", ret |-> <<[file |-> name, content |-> write(c.sets[name], key)]>>,
        coll |-> c]

(***************************************************************************)
(* CommandLoop.  The loop's state is the record [coll, prompt, last_move];  *)
(* every handler yields [err, out, st]: the message of the exception that   *)
(* onecmd caught and printed ("" when none), the hunk shown or the files    *)
(* written, and the state as the handler left it.                           *)
(***************************************************************************)

update_prompt(st) ==
  [st EXCEPT !.prompt = st.coll.current_set_name \o " ("
                          \o progress(current_set(st.coll)) \o ")> "]

\* The prompt is refreshed first, then the hunk is fetched (which clamps).
show_current_hunk(st) ==
  LET s1 == update_prompt(st)
      r  == coll_current_hunk(s1.coll)
  IN  [err |-> r.err, out |-> r.ret, st |-> [s1 EXCEPT !.coll = r.coll]]

\* Runs show_current_hunk after a collection call r made from state st.
ThenShow(st, r) ==
  IF r.err # ""
  THEN [err |-> r.err, out |-> <<>>, st |-> [st EXCEPT !.coll = r.coll]]
  ELSE show_current_hunk([st EXCEPT !.coll = r.coll])

do_set(st, line) ==
  IF line # ""
  THEN LET r == select(st.coll, line)
       IN  IF r.err # ""
           THEN [err |-> r.err, out |-> <<>>, st |-> [st EXCEPT !.coll = r.coll]]
           ELSE [err |-> "", out |-> <<>>, st |-> update_prompt([st EXCEPT !.coll = r.coll])]
  ELSE [err |-> "", out |-> <<>>, st |-> st]

do_create(st, line) ==
  IF line = ""
  THEN [err |-> "Create needs an argument", out |-> <<>>, st |-> st]
  ELSE LET r == create(st.coll, line)
       IN  [err |-> r.err, out |-> <<>>, st |-> [st EXCEPT !.coll = r.coll]]

do_show(st, line) == show_current_hunk(st)

\* Prints the current set; reads hunks and index, changes nothing.
do_ls(st, line) == [err |-> "", out |-> <<>>, st |-> st]

do_next(st, line) == ThenShow(st, coll_skip(st.coll))

do_n(st, line) == do_next(st, line)

do_back(st, line) == ThenShow(st, coll_back(st.coll))

do_b(st, line) == do_back(st, line)

\* The decimal texts of the integers the user may type after "hunk".
IntText == [i \in GoArgs |-> ToString(i)]

\* int(num): raises ValueError for a text that is no integer.
int(num) ==
  IF \E i \in GoArgs : IntText[i] = num
  THEN [err |-> "", ret |-> CHOOSE i \in GoArgs : IntText[i] = num]
  ELSE [err |-> "ValueError", ret |-> 0]

do_hunk(st, num) ==
  LET i == int(num)
  IN  IF i.err # ""
      THEN [err |-> i.err, out |-> <<>>, st |-> st]
      ELSE ThenShow(st, coll_go(st.coll, i.ret))

\* do_move that stores the name only once the move has gone through.
do_move_stores_late(st, name) ==
  LET n1 == IF name = "" THEN st.last_move ELSE name
  IN  IF n1 = ""
      THEN [err |-> "move needs a change set name on the first invocation",
            out |-> <<>>, st |-> st]
      ELSE LET r == move(st.coll, n1)
           IN  IF r.err # ""
               THEN ThenShow(st, r)
               ELSE ThenShow([st EXCEPT !.last_move = n1], r)

do_move(st, name) ==
  LET n1 == IF name = "" THEN st.last_move ELSE name
  IN  IF n1 = ""
      THEN [err |-> "move needs a change set name on the first invocation",
            out |-> <<>>, st |-> st]
      ELSE LET s1 == [st EXCEPT !.last_move = n1]
           IN  ThenShow(s1, move(s1.coll, n1))

do_m(st, name) == do_move(st, name)

do_undo(st, line) == ThenShow(st, undo(st.coll))

RECURSIVE write_sets(_, _, _)
write_sets(c, names, key) ==
  IF names = <<>> THEN <<>>
  ELSE write_set(c, Head(names), key).ret \o write_sets(c, Tail(names), key)

do_write(st, line, key) ==
  IF line # ""
  THEN LET r == write_set(st.coll, line, key)
       IN  [err |-> r.err, out |-> r.ret, st |-> [st EXCEPT !.coll = r.coll]]
  ELSE [err |-> "", out |-> write_sets(st.coll, set_names(st.coll), key), st |-> st]

(***************************************************************************)
(* State                                                                    *)
(***************************************************************************)

Coll == [sets |-> sets, current_set_name |-> current_set_name, undo_stack |-> undo_stack]

Loop == [coll |-> Coll, prompt |-> prompt, last_move |-> last_move]

\* make_hunks: the hunks of the parsed patch, in the order of the patch.
make_hunks(patch_set) == [k \in 1..Len(patch_set) |-> patch_set[k]]

\* Every set's hunk sequence in collection c.
HunksOf(c) == [n \in DOMAIN c.sets |-> c.sets[n].hunks]

\* The state in which the command loop, started on collection app loaded from
\* patch, waits for its next line; queue is what cmdqueue still holds.
Started(patch, app, queue, call) ==
  /\ file_id = patch
  /\ sets = app.sets
  /\ current_set_name = app.current_set_name
  /\ undo_stack = app.undo_stack
  /\ prompt = update_prompt([coll |-> app, prompt |-> "", last_move |-> ""]).prompt
  /\ last_move = ""
  /\ cmdqueue = queue
  /\ last = [op |-> call[1], arg |-> call[2], num |-> 0, err |-> "", out |-> <<>>]
  /\ journal = <<>>

\* main: the parsed patch (the file pair of each of its hunks, in patch order)
\* is loaded into "unclassified"; CommandLoop.__init__ sets the prompt and
\* queues "show".
main(patch) ==
  Started(patch, ChangeCollection(ChangeSet(make_hunks([h \in DOMAIN patch |-> h]))),
          <<"show">>, <<"init", "">>)

\* A patch of n hunks over consecutive file pairs, two hunks per file pair.
PairedPatch(n) == [h \in 1..n |-> Min(NumFiles, 1 + ((h - 1) \div 2))]

\* Any patch of 0..NumHunks hunks, two per file pair.
Init == \E n \in 0..NumHunks : main(PairedPatch(n))

\* Any patch of 0..NumHunks hunks, each hunk of any file pair (concatenated
\* input files may name the same file pair again, in any order), after the
\* queued "show" has run and the user has typed "create foo".
AnyPatchInit ==
  \E n \in 0..NumHunks : \E patch \in [1..n -> FileIds] :
    Started(patch,
            create(ChangeCollection(ChangeSet(make_hunks([h \in DOMAIN patch |-> h]))),
                   "foo").coll,
            <<>>, <<"create", "foo">>)

\* The history of the moves still on the undo stack, after a call with
\* argument name took the collection from c0 to c1: a move that pushed an
\* UndoPoint adds what it moved and the collection it moved it in; a call
\* that popped one drops the newest entry.
JournalAfter(c0, c1, name) ==
  IF Len(c1.undo_stack) > Len(c0.undo_stack)
  THEN LET cs == current_set(c0)
       IN  Append(journal,
                  [hunk   |-> IF cs.index \in 1..Len(cs.hunks) THEN cs.hunks[cs.index] ELSE 0,
                   index  |-> cs.index,
                   source |-> c0.current_set_name,
                   target |-> name,
                   before |-> HunksOf(c0),
                   stack  |-> c0.undo_stack])
  ELSE IF Len(c1.undo_stack) < Len(c0.undo_stack)
  THEN SubSeq(journal, 1, Len(journal) - 1)
  ELSE journal

(***************************************************************************)
(* The ChangeCollection driven directly, one call per step.                *)
(***************************************************************************)

Call(op, arg, num, r) ==
  /\ Len(r.coll.undo_stack) <= MaxUndo
  /\ sets' = r.coll.sets
  /\ current_set_name' = r.coll.current_set_name
  /\ undo_stack' = r.coll.undo_stack
  /\ last' = [op |-> op, arg |-> arg, num |-> num, err |-> r.err, out |-> r.ret]
  /\ journal' = JournalAfter(Coll, r.coll, arg)
  /\ UNCHANGED <<file_id, prompt, last_move, cmdqueue>>

Skip == Call("skip", "", 0, coll_skip(Coll))

Back == Call("back", "", 0, coll_back(Coll))

Go == \E i \in GoArgs : Call("go", "", i, coll_go(Coll, i))

CurrentHunk == Call("current_hunk", "", 0, coll_current_hunk(Coll))

Select == \E name \in Names : Call("select", name, 0, select(Coll, name))

Create == \E name \in Names : Call("create", name, 0, create(Coll, name))

Move == \E name \in Names : Call("move", name, 0, move(Coll, name))

Undo == Call("undo", "", 0, undo(Coll))

WriteSet == \E name \in Names : Call("write_set", name, 0, write_set(Coll, name, file_id))

Next ==
  \/ Skip
  \/ Back
  \/ Go
  \/ CurrentHunk
  \/ Select
  \/ Create
  \/ Move
  \/ Undo
  \/ WriteSet

Spec == Init /\ [][Next]_vars

\* The same calls on a collection loaded from any patch.
WriteNext ==
  \/ Skip
  \/ Select
  \/ Move
  \/ Undo
  \/ WriteSet

WriteSpec == AnyPatchInit /\ [][WriteNext]_vars

(***************************************************************************)
(* The command loop: one command line per step, through onecmd.            *)
(***************************************************************************)

\* cmdloop takes the next line from cmdqueue when it holds one, else from
\* the user.
Reads(word, line) ==
  IF cmdqueue = <<>> THEN TRUE ELSE Head(cmdqueue) = word /\ line = ""

Cmd(word, line, r) ==
  /\ Reads(word, line)
  /\ Len(r.st.coll.undo_stack) <= MaxUndo
  /\ cmdqueue' = IF cmdqueue = <<>> THEN cmdqueue ELSE Tail(cmdqueue)
  /\ sets' = r.st.coll.sets
  /\ current_set_name' = r.st.coll.current_set_name
  /\ undo_stack' = r.st.coll.undo_stack
  /\ prompt' = r.st.prompt
  /\ last_move' = r.st.last_move
  /\ last' = [op |-> word, arg |-> line, num |-> 0, err |-> r.err, out |-> r.out]
  /\ journal' = JournalAfter(Coll, r.st.coll, r.st.last_move)
  /\ UNCHANGED file_id

\* What the user may type after a command word that takes a set name.
NameArgs == Names \cup {""}

\* What the user may type after "hunk".
HunkArgs == {IntText[i] : i \in GoArgs} \cup {"x", ""}

CmdSet == \E line \in NameArgs : Cmd("set", line, do_set(Loop, line))

CmdCreate == \E line \in NameArgs : Cmd("create", line, do_create(Loop, line))

CmdShow == Cmd("show", "", do_show(Loop, ""))

CmdLs == Cmd("ls", "", do_ls(Loop, ""))

\* The aliases n, b and m hand the line to do_next, do_back and do_move.
CmdNext == Cmd("next", "", do_next(Loop, "")) \/ Cmd("next", "", do_n(Loop, ""))

CmdBack == Cmd("back", "", do_back(Loop, "")) \/ Cmd("back", "", do_b(Loop, ""))

CmdHunk == \E num \in HunkArgs : Cmd("hunk", num, do_hunk(Loop, num))

CmdMove ==
  \E name \in NameArgs :
    Cmd("move", name, do_move(Loop, name)) \/ Cmd("move", name, do_m(Loop, name))

CmdUndo == Cmd("undo", "", do_undo(Loop, ""))

CmdWrite == \E line \in NameArgs : Cmd("write", line, do_write(Loop, line, file_id))

LoopNext ==
  \/ CmdSet
  \/ CmdCreate
  \/ CmdShow
  \/ CmdLs
  \/ CmdNext
  \/ CmdBack
  \/ CmdHunk
  \/ CmdMove
  \/ CmdUndo
  \/ CmdWrite

LoopSpec == Init /\ [][LoopNext]_vars

(***************************************************************************)
(* Properties                                                               *)
(***************************************************************************)

Top(stack) == stack[Len(stack)]

Called(op) == last.op = op

Succeeded(op) == last.op = op /\ last.err = ""

\* C1: every change set, current or not, has 1 <= index <= max(1, count) in
\* every reachable state.
C1_CursorInBounds ==
  \A n \in DOMAIN sets :
    1 <= sets[n].index /\ sets[n].index <= Max(1, count(sets[n]))

\* C2: when undo() directly follows a successful move(B) made in current set
\* A with the cursor at p on hunk H, then A and B hold the hunks they held
\* before the move, H is at position p of A, A is current with cursor p, and
\* the undo stack is what it was before the move.
C2_MoveUndoRoundTrip ==
  [][(Succeeded("move") /\ last'.op = "undo" /\ journal # <<>>) =>
       LET j == Top(journal)
       IN  /\ last'.err = ""
           /\ current_set_name' = j.source
           /\ sets'[j.source].index = j.index
           /\ sets'[j.source].hunks = j.before[j.source]
           /\ sets'[j.source].hunks[j.index] = j.hunk
           /\ sets'[j.target].hunks = j.before[j.target]
           /\ undo_stack' = j.stack]_vars

\* C2 witness: a move has just taken a hunk that had a hunk after it into a
\* set that already held one; undo() is the next call.
C2_Witness ==
  /\ Succeeded("move")
  /\ journal # <<>>
  /\ LET j == Top(journal)
     IN  /\ j.index < Len(j.before[j.source])
         /\ j.before[j.target] # <<>>
         /\ undo(Coll).err = ""

\* C3: whenever the undo stack is not empty, the last hunk of the set its top
\* names as target is the hunk that the move which pushed that top
\* transferred, and undo() gives every set the hunks it had just before that
\* move (a set created since then is empty).
C3_UndoRetrievesMovedHunk ==
  undo_stack # <<>> =>
    /\ Len(journal) = Len(undo_stack)
    /\ LET u == Top(undo_stack)
           j == Top(journal)
           t == sets[u.target_set].hunks
           r == undo(Coll)
       IN  /\ t # <<>>
           /\ t[Len(t)] = j.hunk
           /\ r.err = ""
           /\ \A n \in DOMAIN r.coll.sets :
                r.coll.sets[n].hunks = IF n \in DOMAIN j.before THEN j.before[n] ELSE <<>>

\* C3 witness: two moves are on the stack, the newer one took a hunk out of
\* the set the older one had moved a hunk into, and the user has navigated
\* since.
C3_Witness ==
  /\ Len(undo_stack) = 2
  /\ undo_stack[2].source_set = undo_stack[1].target_set
  /\ last.op \in {"select", "go", "skip", "back"}
  /\ current_set_name # undo_stack[2].source_set

\* C4: a move that fails leaves every set (hunks and cursor), the current set
\* name and the undo stack as they were.
C4_FailedMoveAtomic ==
  [][(last'.op = "move" /\ last'.err # "") =>
       UNCHANGED <<sets, current_set_name, undo_stack>>]_vars

\* C4 witness: a move has just failed in take, with hunks in the destination.
C4_Witness ==
  /\ Called("move")
  /\ last.err = "Change set is empty"
  /\ sets[last.arg].hunks # <<>>

\* C5: a move to an existing set other than the current one fails with the
\* empty-set error exactly when the current set has no hunks.
C5_EmptyErrorIffEmpty ==
  [][(last'.op = "move" /\ last'.arg \in DOMAIN sets /\ last'.arg # current_set_name) =>
       (last'.err = "Change set is empty" <=> count(current_set(Coll)) = 0)]_vars

\* C7: every hunk of the loaded patch is in exactly one set, exactly once.
C7_HunkConservation ==
  \A h \in DOMAIN file_id :
    Cardinality({p \in (DOMAIN sets) \X (1..Len(file_id)) :
                   p[2] <= Len(sets[p[1]].hunks) /\ sets[p[1]].hunks[p[2]] = h}) = 1

\* C7 witness: an undo has just put a hunk back while another move is still
\* on the stack and two other sets hold hunks.
C7_Witness ==
  /\ Succeeded("undo")
  /\ undo_stack # <<>>
  /\ Cardinality({n \in DOMAIN sets : sets[n].hunks # <<>>}) >= 2

\* C6: a command that ends in a reported error leaves every set's hunks, the
\* current set name and the undo stack as they were before the command.
C6_ErrorLeavesModelUnchanged ==
  [][last'.err # "" =>
       /\ HunksOf(Coll)' = HunksOf(Coll)
       /\ current_set_name' = current_set_name
       /\ undo_stack' = undo_stack]_vars

\* The content of the file the last write_set wrote.
Written == last.out[1].content

\* The position of hunk h in sequence hs.
Pos(hs, h) == CHOOSE k \in 1..Len(hs) : hs[k] = h

Headers(out) == {k \in 1..Len(out) : out[k].kind = "header"}

HunkItems(out) == {k \in 1..Len(out) : out[k].kind = "hunk"}

\* The hunk items of out that belong to one file pair follow the patch order.
InPatchOrder(out, key) ==
  \A a, b \in HunkItems(out) :
    (a < b /\ key[out[a].hunk] = key[out[b].hunk]) => out[a].hunk < out[b].hunk

\* C8 as stated: whatever set is written, the hunks of one file pair come
\* out in the order they had in the loaded patch.
C8_WrittenInPatchOrder ==
  Succeeded("write_set") => InPatchOrder(Written, file_id)

\* out is what C9 says write emits for the hunk sequence hs.
WellWritten(out, hs, key) ==
  LET files == {key[hs[k]] : k \in 1..Len(hs)}
  IN  \* every hunk of the set once, and nothing else
      /\ Cardinality(HunkItems(out)) = Len(hs)
      /\ \A k \in 1..Len(hs) :
           Cardinality({a \in HunkItems(out) : out[a].hunk = hs[k]}) = 1
      \* one header per file pair of the set
      /\ Cardinality(Headers(out)) = Cardinality(files)
      /\ \A f \in files :
           Cardinality({a \in Headers(out) : key[out[a].hunk] = f}) = 1
      \* each hunk follows the header of its own file pair
      /\ \A a \in HunkItems(out) :
           /\ \E b \in Headers(out) : b < a
           /\ LET b == CHOOSE b \in Headers(out) :
                         b < a /\ \A c \in Headers(out) : c < a => c <= b
              IN  key[out[b].hunk] = key[out[a].hunk]
      \* groups by ascending file_id
      /\ \A a, b \in Headers(out) : a < b => key[out[a].hunk] < key[out[b].hunk]
      \* inside a group, the order of the set
      /\ \A a, b \in HunkItems(out) :
           (a < b /\ key[out[a].hunk] = key[out[b].hunk])
             => Pos(hs, out[a].hunk) < Pos(hs, out[b].hunk)

\* C9: write emits one header per file pair of the set, each followed by all
\* hunks of that file pair in the order of the set, groups by ascending
\* file_id, every hunk once; the sets and their cursors stay as they were.
C9_WriteGroupsByFile ==
  [][(last'.op = "write_set" /\ last'.err = "") =>
       /\ sets' = sets
       /\ current_set_name' = current_set_name
       /\ undo_stack' = undo_stack
       /\ last'.out[1].file = last'.arg
       /\ WellWritten(last'.out[1].content, sets[last'.arg].hunks, file_id)]_vars

\* C9 witness: a set whose first hunk is of a later file pair than its second
\* and of the same file pair as its third has just been written.
C9_Witness ==
  /\ Succeeded("write_set")
  /\ LET hs == sets[last.arg].hunks
     IN  /\ Len(hs) >= 3
         /\ file_id[hs[1]] > file_id[hs[2]]
         /\ file_id[hs[3]] = file_id[hs[1]]

\* C10: go(i) never raises, leaves every hunk sequence alone and leaves the
\* cursor of the set at max(1, min(i, count)), which is 1 for an empty set.
C10_GoClamps ==
  [][last'.op = "go" =>
       /\ last'.err = ""
       /\ HunksOf(Coll)' = HunksOf(Coll)
       /\ current_set_name' = current_set_name
       /\ current_set(Coll)'.index = Max(1, Min(last'.num, count(current_set(Coll))))
       /\ (count(current_set(Coll)) = 0 => current_set(Coll)'.index = 1)]_vars

\* C10 witness: go was called with a number above the count of a set of two
\* or more hunks, and the cursor is on the last hunk.
C10_Witness ==
  /\ Called("go")
  /\ count(current_set(Coll)) >= 2
  /\ last.num > count(current_set(Coll))
  /\ current_set(Coll).index = count(current_set(Coll))

\* cs after k calls of skip.
RECURSIVE SkipTimes(_, _)
SkipTimes(cs, k) == IF k = 0 THEN cs ELSE SkipTimes(skip(cs), k - 1)

\* C11: a skip or back on a set of N >= 1 hunks leaves the cursor in 1..N,
\* skip wraps from N to 1, back wraps from 1 to N, and N skips from where the
\* cursor stands bring it back there.
C11_SkipBackWrap ==
  [][(last'.op \in {"skip", "back"} /\ count(current_set(Coll)) >= 1) =>
       LET cs == current_set(Coll)
           N  == count(cs)
       IN  /\ current_set(Coll)'.index \in 1..N
           /\ (last'.op = "skip" /\ cs.index = N) => current_set(Coll)'.index = 1
           /\ (last'.op = "back" /\ cs.index = 1) => current_set(Coll)'.index = N
           /\ SkipTimes(cs, N).index = cs.index]_vars

\* C12: whenever the loop is about to read a line, the stored prompt is the
\* current set name with the progress of the current set as it then is.
C12_PromptShowsState == prompt = update_prompt(Loop).prompt

\* C13: the current set name is a key of sets and "unclassified" is one, in
\* every state; a select of an unknown name raises "No such set" and leaves
\* the current set name as it was.
C13_CurrentSetExists ==
  /\ [](current_set_name \in DOMAIN sets /\ "unclassified" \in DOMAIN sets)
  /\ [][(last'.op = "select" /\ last'.arg \notin DOMAIN sets) =>
          (last'.err = "No such set" /\ current_set_name' = current_set_name)]_vars

\* C13 witness: a select of a name that is no set has just failed while a set
\* other than "unclassified" is current.
C13_Witness ==
  /\ Called("select")
  /\ last.arg \notin DOMAIN sets
  /\ last.err = "No such set"
  /\ current_set_name # "unclassified"

\* C14: a create of a name that is a set raises "Set already exists" and
\* leaves every set (hunks and cursor), the current set name and the undo
\* stack as they were.
C14_CreateExistingAltersNothing ==
  [][(last'.op = "create" /\ last'.arg \in DOMAIN sets) =>
       /\ last'.err = "Set already exists"
       /\ UNCHANGED <<sets, current_set_name, undo_stack>>]_vars

\* C14 witness: a create has just failed on the name of a set that holds
\* hunks and has its cursor past the first one.
C14_Witness ==
  /\ Called("create")
  /\ last.err = "Set already exists"
  /\ sets[last.arg].hunks # <<>>
  /\ sets[last.arg].index > 1

\* C15: a successful move pushes exactly one UndoPoint made of the cursor the
\* source set had before the take, the current set name and the destination;
\* a successful undo pops exactly one; nothing else changes the undo stack;
\* and every UndoPoint on the stack names two distinct sets that exist.
C15_UndoStackDiscipline ==
  /\ [](\A i \in 1..Len(undo_stack) :
          /\ undo_stack[i].source_set # undo_stack[i].target_set
          /\ undo_stack[i].source_set \in DOMAIN sets
          /\ undo_stack[i].target_set \in DOMAIN sets)
  /\ [][IF last'.op = "move" /\ last'.err = ""
        THEN undo_stack' = Append(undo_stack,
                                  [index      |-> current_set(Coll).index,
                                   source_set |-> current_set_name,
                                   target_set |-> last'.arg])
        ELSE IF last'.op = "undo" /\ last'.err = ""
        THEN undo_stack # <<>> /\ undo_stack' = SubSeq(undo_stack, 1, Len(undo_stack) - 1)
        ELSE undo_stack' = undo_stack]_vars

\* C15 witness: a move has just succeeded from a set other than "unclassified"
\* onto a stack that already held an UndoPoint.
C15_Witness ==
  /\ Succeeded("move")
  /\ Len(undo_stack) >= 2
  /\ Top(undo_stack).source_set # "unclassified"

\* C16: a successful undo returns the UndoPoint u it popped, makes u.source_set
\* current with the cursor at u.index, and current_hunk() then returns the
\* hunk that was the tail of u.target_set, with the cursor still at u.index.
C16_UndoShowsRestoredHunk ==
  [][(last'.op = "undo" /\ last'.err = "") =>
       LET u == Top(undo_stack)
           h == current_hunk(current_set(Coll)')
       IN  /\ last'.out = <<u>>
           /\ current_set_name' = u.source_set
           /\ current_set(Coll)'.index = u.index
           /\ h.err = ""
           /\ h.ret = Top(sets[u.target_set].hunks)
           /\ h.cs.index = u.index]_vars

\* C16 witness: an undo has just succeeded to a cursor past the first hunk
\* after the user had moved the cursor of the target set.
C16_Witness ==
  /\ Succeeded("undo")
  /\ last.out[1].index > 1
  /\ sets[last.out[1].target_set].index > 1

\* C17: right after a successful move of the hunk at cursor p out of a set of
\* N hunks, that set is still current and its cursor is still p; for p < N
\* current_hunk() returns the hunk that was at p + 1, for p = N > 1 it clamps
\* the cursor to N - 1 and returns the hunk that was at N - 1, and for N = 1
\* it raises "This change set is empty".
C17_AfterMove ==
  Succeeded("move") =>
    LET j   == Top(journal)
        old == j.before[j.source]
        N   == Len(old)
        p   == j.index
        h   == current_hunk(current_set(Coll))
    IN  /\ current_set_name = j.source
        /\ current_set(Coll).index = p
        /\ p < N => (h.err = "" /\ h.ret = old[p + 1] /\ h.cs.index = p)
        /\ (p = N /\ N > 1) => (h.err = "" /\ h.ret = old[N - 1] /\ h.cs.index = N - 1)
        /\ N = 1 => h.err = "This change set is empty"

\* C17 witness: a move has just taken the last of several hunks with the
\* cursor on it.
C17_Witness ==
  /\ Succeeded("move")
  /\ Top(journal).index = Len(Top(journal).before[Top(journal).source])
  /\ Top(journal).index > 1

\* C19: while the undo stack is not empty, the target set of its top
\* UndoPoint holds a hunk and the recorded index lies in 1..count+1 of the
\* source set; an undo on a non-empty stack succeeds, and an undo that fails
\* raises "Nothing to undo" and leaves sets, current set name and stack alone.
C19_UndoNeverFailsPartWay ==
  /\ [](undo_stack # <<>> =>
          LET u == Top(undo_stack)
          IN  /\ ~empty(sets[u.target_set])
              /\ u.index \in 1..(count(sets[u.source_set]) + 1))
  /\ [][last'.op = "undo" =>
          IF undo_stack # <<>>
          THEN last'.err = ""
          ELSE /\ last'.err = "Nothing to undo"
               /\ UNCHANGED <<sets, current_set_name, undo_stack>>]_vars

\* C19 witness: an undo has just put a hunk back at the very end of its source
\* set (index count + 1 before the insert) and more remains to undo.
C19_Witness ==
  /\ Succeeded("undo")
  /\ last.out[1].index = count(sets[last.out[1].source_set])
  /\ last.out[1].index > 1
  /\ undo_stack # <<>>

\* C20: select changes nothing but the current set name; skip, back and go
\* change nothing but the cursor of the current set: every hunk sequence,
\* every other set's cursor and the undo stack stay as they were.
C20_NavigationFrame ==
  [][/\ last'.op = "select" =>
          /\ UNCHANGED <<sets, undo_stack>>
          /\ last'.err = "" => current_set_name' = last'.arg
     /\ last'.op \in {"skip", "back", "go"} =>
          /\ UNCHANGED <<current_set_name, undo_stack>>
          /\ DOMAIN sets' = DOMAIN sets
          /\ HunksOf(Coll)' = HunksOf(Coll)
          /\ \A n \in DOMAIN sets \ {current_set_name} : sets'[n] = sets[n]]_vars

\* C20 witness: a select has just succeeded while two sets each have their
\* cursor past the first hunk.
C20_Witness ==
  /\ Succeeded("select")
  /\ Cardinality(DOMAIN sets) >= 2
  /\ \A n \in DOMAIN sets : sets[n].index > 1

\* C18: a move command with a name moves the current hunk to the tail of
\* exactly that set whenever that set exists, is not the current one and the
\* cursor is on a hunk, and otherwise raises move's error and moves nothing;
\* either way the name becomes the remembered one.  A move command without a
\* name does the same with the remembered name, and when none is remembered
\* it raises the missing-argument error and changes nothing.  No other
\* command changes the remembered name.
C18_MoveReusesLastName ==
  [][IF last'.op = "move"
     THEN LET name == IF last'.arg # "" THEN last'.arg ELSE last_move
              cs   == current_set(Coll)
          IN  IF name = ""
              THEN /\ last'.err = "move needs a change set name on the first invocation"
                   /\ UNCHANGED <<sets, current_set_name, undo_stack, prompt, last_move>>
              ELSE /\ last_move' = name
                   /\ IF /\ name # current_set_name
                         /\ name \in DOMAIN sets
                         /\ cs.index \in 1..count(cs)
                      THEN /\ sets'[name].hunks = Append(sets[name].hunks, cs.hunks[cs.index])
                           /\ Len(undo_stack') = Len(undo_stack) + 1
                           /\ Top(undo_stack').target_set = name
                      ELSE /\ last'.err \in {"Hunk is already in change set",
                                             "No such change set", "Change set is empty"}
                           /\ UNCHANGED <<sets, current_set_name, undo_stack>>
     ELSE last_move' = last_move]_vars

\* C18 witness: a move command without a name has just moved a second hunk to
\* the remembered set and shown the next one.
C18_Witness ==
  /\ Succeeded("move")
  /\ last.arg = ""
  /\ last.out # <<>>
  /\ Len(undo_stack) >= 2
  /\ Top(undo_stack).target_set = last_move

====
